---- MODULE Spec2Model ----
(***************************************************************************)
(* A model of the ClarityScript compiler: the indentation-sensitive lexer  *)
(* (clarity_lexer.py), the recursive-descent parser (clarity_parser.py)    *)
(* and the tree-walking HTML generator (clarity_compiler.py).              *)
(*                                                                         *)
(* Source text, lexemes and output lines are TLA+ strings, read character  *)
(* by character with 0-based positions as in the Python source.            *)
(***************************************************************************)
EXTENDS Integers, Sequences, FiniteSets, TLC

(***************************************************************************)
(* Python string primitives                                                *)
(***************************************************************************)

\* s[i]; "" stands for "no character" (index out of range / None)
At(s, i) == IF i >= 0 /\ i < Len(s) THEN SubSeq(s, i + 1, i + 1) ELSE ""

\* s[a:b] for a, b >= 0
Slice(s, a, b) ==
  LET hi == IF b > Len(s) THEN Len(s) ELSE b
  IN  IF a >= hi THEN "" ELSE SubSeq(s, a + 1, hi)

\* s[a:]
From(s, a) == Slice(s, a, Len(s))

\* str.isspace() on one character (ASCII)
SpaceChars == {" ", "\t", "\n", "\r"}

\* the characters a line's leading whitespace is counted over
IndentChars == SpaceChars \ {"\n"}

Letters ==
  {"a","b","c","d","e","f","g","h","i","j","k","l","m","n","o","p","q","r",
   "s","t","u","v","w","x","y","z",
   "A","B","C","D","E","F","G","H","I","J","K","L","M","N","O","P","Q","R",
   "S","T","U","V","W","X","Y","Z"}

Digits == {"0","1","2","3","4","5","6","7","8","9"}

\* str.isalpha() / str.isalnum() on one character (ASCII)
IsAlpha(c) == c \in Letters
IsAlnum(c) == c \in Letters \cup Digits

\* c.isalnum() or c == '_'  (also the regex class \w)
WordChars == Letters \cup Digits \cup {"_"}

\* the first j >= i with j = len(s) or s[j] not in cs
RECURSIVE ScanIn(_, _, _)
ScanIn(s, i, cs) ==
  IF i < Len(s) /\ At(s, i) \in cs THEN ScanIn(s, i + 1, cs) ELSE i

\* the first j >= i with j = len(s) or s[j] in cs
RECURSIVE ScanNotIn(_, _, _)
ScanNotIn(s, i, cs) ==
  IF i < Len(s) /\ At(s, i) \notin cs THEN ScanNotIn(s, i + 1, cs) ELSE i

\* the number of '\n' in s[a:b]
RECURSIVE CountNewlines(_, _, _)
CountNewlines(s, a, b) ==
  IF a >= b \/ a >= Len(s) THEN 0
  ELSE (IF At(s, a) = "\n" THEN 1 ELSE 0) + CountNewlines(s, a + 1, b)

\* the end of s with trailing whitespace dropped
RECURSIVE RStripEnd(_, _)
RStripEnd(s, n) ==
  IF n > 0 /\ At(s, n - 1) \in SpaceChars THEN RStripEnd(s, n - 1) ELSE n

\* str.strip()
Strip(s) ==
  LET a == ScanIn(s, 0, SpaceChars)
      b == RStripEnd(s, Len(s))
  IN  Slice(s, a, b)

\* str.startswith / str.endswith
StartsWith(s, p) == Len(s) >= Len(p) /\ Slice(s, 0, Len(p)) = p
EndsWith(s, p) == Len(s) >= Len(p) /\ Slice(s, Len(s) - Len(p), Len(s)) = p

\* str.find(sub, i): the first index >= i where sub occurs in s, or -1
RECURSIVE Find(_, _, _)
Find(s, sub, i) ==
  IF i + Len(sub) > Len(s) THEN -1
  ELSE IF Slice(s, i, i + Len(sub)) = sub THEN i
  ELSE Find(s, sub, i + 1)

\* sub in s
Contains(s, sub) == Find(s, sub, 0) >= 0

\* str.replace(old, new), old non-empty: every non-overlapping occurrence,
\* left to right
RECURSIVE Replace(_, _, _)
Replace(s, old, new) ==
  LET k == Find(s, old, 0)
  IN  IF k < 0 THEN s
      ELSE Slice(s, 0, k) \o new \o Replace(From(s, k + Len(old)), old, new)

\* str.split(sep), sep one character: the sequence of pieces
RECURSIVE Split(_, _)
Split(s, sep) ==
  LET k == Find(s, sep, 0)
  IN  IF k < 0 THEN <<s>>
      ELSE <<Slice(s, 0, k)>> \o Split(From(s, k + 1), sep)

\* ' ' * n
RECURSIVE Spaces(_)
Spaces(n) == IF n <= 0 THEN "" ELSE " " \o Spaces(n - 1)

\* a value with one pair of surrounding double quotes removed, when it has
\* them (v[1:-1] under startswith('"') and endswith('"'))
UnquoteDouble(v) ==
  IF StartsWith(v, "\"") /\ EndsWith(v, "\"") THEN Slice(v, 1, Len(v) - 1) ELSE v

\* the same for either quote character
UnquoteAny(v) ==
  IF (StartsWith(v, "\"") /\ EndsWith(v, "\"")) \/ (StartsWith(v, "'") /\ EndsWith(v, "'"))
  THEN Slice(v, 1, Len(v) - 1) ELSE v

(***************************************************************************)
(* Lexer (clarity_lexer.py)                                                *)
(***************************************************************************)

Token(t, v) == [type |-> t, value |-> v]

\* Lexer.__init__
LexerInit(src) ==
  [source |-> src, tokens |-> <<>>, position |-> 0, line |-> 1,
   indent_stack |-> <<0>>, error |-> "none", error_line |-> 0]

Top(stack) == stack[Len(stack)]
Pop(stack) == SubSeq(stack, 1, Len(stack) - 1)

\* the inner loop without its "append DEDENT"
RECURSIVE PopWithoutDedents(_, _)
PopWithoutDedents(lx, indent) ==
  IF indent < Top(lx.indent_stack)
  THEN PopWithoutDedents([lx EXCEPT !.indent_stack = Pop(lx.indent_stack)], indent)
  ELSE lx

\* "if" for the "while" of the inner loop: one level popped at most
PopOneDedent(lx, indent) ==
  IF indent < Top(lx.indent_stack)
  THEN [lx EXCEPT !.indent_stack = Pop(lx.indent_stack),
                  !.tokens = Append(lx.tokens, Token("DEDENT", ""))]
  ELSE lx

\* the inner loop "while indent < self.indent_stack[-1]: pop; append DEDENT"
RECURSIVE PopDedents(_, _)
PopDedents(lx, indent) ==
  IF indent < Top(lx.indent_stack)
  THEN PopDedents([lx EXCEPT !.indent_stack = Pop(lx.indent_stack),
                             !.tokens = Append(lx.tokens, Token("DEDENT", ""))],
                  indent)
  ELSE lx

\* Lexer._handle_indentation
HandleIndentation(lx) ==
  LET s      == lx.source
      p      == ScanIn(s, lx.position, IndentChars)
      indent == p - lx.position
      l1     == [lx EXCEPT !.position = p]
  IN  IF p < Len(s) /\ At(s, p) \in {"\n", "#"} THEN l1
      ELSE IF indent > Top(lx.indent_stack)
      THEN [l1 EXCEPT !.indent_stack = Append(lx.indent_stack, indent),
                      !.tokens = Append(lx.tokens, Token("INDENT", Spaces(indent)))]
      ELSE IF indent < Top(lx.indent_stack)
      THEN LET l2 == PopDedents(l1, indent)
           IN  IF indent # Top(l2.indent_stack)
               THEN [l2 EXCEPT !.error = "indentation", !.error_line = lx.line]
               ELSE l2
      ELSE l1

\* Lexer._tokenize_comment
TokenizeComment(lx) ==
  LET p == ScanNotIn(lx.source, lx.position, {"\n"})
  IN  [lx EXCEPT !.position = p,
                 !.tokens = Append(lx.tokens, Token("COMMENT", Slice(lx.source, lx.position, p)))]

\* the scan of _tokenize_multiline_string: the index of the closing triple
\* quote, or -1
RECURSIVE FindTriple(_, _)
FindTriple(s, i) ==
  IF i < Len(s) - 2
  THEN IF Slice(s, i, i + 3) = "\"\"\"" THEN i ELSE FindTriple(s, i + 1)
  ELSE -1

\* Lexer._tokenize_multiline_string
TokenizeMultilineString(lx) ==
  LET s == lx.source
      p == FindTriple(s, lx.position + 3)
  IN  IF p < 0
      THEN [lx EXCEPT !.error = "unterminated multi-line string", !.error_line = lx.line]
      ELSE [lx EXCEPT !.position = p + 3,
                      !.line = lx.line + CountNewlines(s, lx.position + 3, p),
                      !.tokens = Append(lx.tokens,
                                        Token("MULTILINE_STRING", Slice(s, lx.position, p + 3)))]

\* the scan of _tokenize_string: the index of the closing quote (one not
\* preceded by a backslash), or -1
RECURSIVE FindQuote(_, _, _)
FindQuote(s, i, q) ==
  IF i < Len(s)
  THEN IF At(s, i) = q /\ (i = 0 \/ At(s, i - 1) # "\\") THEN i ELSE FindQuote(s, i + 1, q)
  ELSE -1

\* Lexer._tokenize_string
TokenizeString(lx) ==
  LET s == lx.source
      p == FindQuote(s, lx.position + 1, At(s, lx.position))
  IN  IF p < 0
      THEN [lx EXCEPT !.error = "unterminated string",
                      !.error_line = lx.line + CountNewlines(s, lx.position + 1, Len(s))]
      ELSE [lx EXCEPT !.position = p + 1,
                      !.line = lx.line + CountNewlines(s, lx.position + 1, p),
                      !.tokens = Append(lx.tokens, Token("STRING", Slice(s, lx.position, p + 1)))]

\* Lexer._is_variable_declaration
IsVariableDeclaration(lx) ==
  LET s == lx.source
      i == ScanIn(s, ScanIn(s, lx.position + 1, WordChars), SpaceChars)
  IN  i < Len(s) /\ At(s, i) = "="

\* Lexer._tokenize_variable_declaration (entered only when
\* _is_variable_declaration holds, so the '=' is there)
TokenizeVariableDeclaration(lx) ==
  LET s  == lx.source
      eq == ScanIn(s, ScanIn(s, lx.position + 1, WordChars), SpaceChars)
      v  == ScanIn(s, eq + 1, SpaceChars)
      p  == ScanNotIn(s, v, {"\n", "#"})
  IN  [lx EXCEPT !.position = p,
                 !.tokens = Append(lx.tokens,
                                   Token("VARIABLE_DECL", Strip(Slice(s, lx.position, p))))]

\* Lexer._tokenize_variable_reference
TokenizeVariableReference(lx) ==
  LET p == ScanIn(lx.source, lx.position + 1, WordChars)
  IN  [lx EXCEPT !.position = p,
                 !.tokens = Append(lx.tokens,
                                   Token("VARIABLE_REF", Slice(lx.source, lx.position, p)))]

\* Lexer._check_keyword_boundary
CheckKeywordBoundary(lx, keyword_length) ==
  LET after_pos == lx.position + keyword_length
  IN  IF after_pos >= Len(lx.source) THEN TRUE
      ELSE At(lx.source, after_pos) \notin WordChars

\* Lexer._is_for_loop
IsForLoop(lx) ==
  /\ lx.position + 3 < Len(lx.source)
  /\ Slice(lx.source, lx.position, lx.position + 4) = "for "
  /\ CheckKeywordBoundary(lx, 4)

\* Lexer._is_if_statement
IsIfStatement(lx) ==
  /\ lx.position + 2 < Len(lx.source)
  /\ Slice(lx.source, lx.position, lx.position + 3) = "if "
  /\ CheckKeywordBoundary(lx, 2)

\* Lexer._is_else_statement
IsElseStatement(lx) ==
  /\ lx.position + 4 < Len(lx.source)
  /\ \/ Slice(lx.source, lx.position, lx.position + 5) = "else:"
     \/ /\ Slice(lx.source, lx.position, lx.position + 4) = "else"
        /\ At(lx.source, lx.position + 4) \in SpaceChars

\* Lexer._is_component_definition
IsComponentDefinition(lx) ==
  /\ lx.position + 9 < Len(lx.source)
  /\ Slice(lx.source, lx.position, lx.position + 10) = "@component"

\* the header scans of _tokenize_for_loop and _tokenize_if_statement: up to,
\* not including, the ':' or the end of the line
TokenizeHeader(lx, type) ==
  LET p == ScanNotIn(lx.source, lx.position, {":", "\n"})
  IN  [lx EXCEPT !.position = p,
                 !.tokens = Append(lx.tokens, Token(type, Strip(Slice(lx.source, lx.position, p))))]

\* the header scans of _tokenize_else_statement, _tokenize_component_definition
\* and _tokenize_component_use: the ':' is included when it is there
TokenizeHeaderColon(lx, type) ==
  LET p0 == ScanNotIn(lx.source, lx.position, {":", "\n"})
      p  == IF p0 < Len(lx.source) /\ At(lx.source, p0) = ":" THEN p0 + 1 ELSE p0
  IN  [lx EXCEPT !.position = p,
                 !.tokens = Append(lx.tokens, Token(type, Strip(Slice(lx.source, lx.position, p))))]

\* Lexer._tokenize_element_or_attribute
TokenizeElementOrAttribute(lx) ==
  LET s    == lx.source
      p    == ScanIn(s, lx.position, Letters \cup Digits \cup {"_", "-"})
      i    == ScanIn(s, p, IndentChars)
      nxt  == At(s, i)
      name == Slice(s, lx.position, p)
  IN  IF nxt = ":" \/ (nxt # "" /\ nxt # "\n" /\ nxt # "#")
      THEN LET l1 == [lx EXCEPT !.position = p,
                                !.tokens = Append(lx.tokens, Token("ELEMENT", name))]
           IN  IF nxt # ":"
               THEN LET p2    == ScanNotIn(s, p, {":", "\n"})
                        attrs == Strip(Slice(s, p, p2))
                    IN  [l1 EXCEPT !.position = p2,
                                   !.tokens = IF attrs # ""
                                              THEN Append(l1.tokens, Token("ATTRIBUTE", attrs))
                                              ELSE l1.tokens]
               ELSE l1
      ELSE [lx EXCEPT !.position = p,
                      !.tokens = Append(lx.tokens, Token("CONTENT", name))]

\* the classification chain of Lexer.tokenize at the current character
TokenizeAt(lx) ==
  LET s    == lx.source
      char == At(s, lx.position)
  IN  IF lx.position + 2 < Len(s) /\ Slice(s, lx.position, lx.position + 3) = "\"\"\""
        THEN TokenizeMultilineString(lx)
      ELSE IF char = "#" THEN TokenizeComment(lx)
      ELSE IF char = "\"" \/ char = "'" THEN TokenizeString(lx)
      ELSE IF char = "$"
        THEN IF IsVariableDeclaration(lx) THEN TokenizeVariableDeclaration(lx)
             ELSE TokenizeVariableReference(lx)
      ELSE IF char = ":"
        THEN [lx EXCEPT !.position = lx.position + 1,
                        !.tokens = Append(lx.tokens, Token("COLON", ":"))]
      ELSE IF char = "@"
        THEN IF IsComponentDefinition(lx) THEN TokenizeHeaderColon(lx, "COMPONENT_DEF")
             ELSE TokenizeHeaderColon(lx, "COMPONENT_USE")
      ELSE IF char = "\n"
        THEN [lx EXCEPT !.position = lx.position + 1,
                        !.line = lx.line + 1,
                        !.tokens = Append(lx.tokens, Token("NEWLINE", "\n"))]
      ELSE IF IsForLoop(lx) THEN TokenizeHeader(lx, "FOR_LOOP")
      ELSE IF IsIfStatement(lx) THEN TokenizeHeader(lx, "IF_STATEMENT")
      ELSE IF IsElseStatement(lx) THEN TokenizeHeaderColon(lx, "ELSE_STATEMENT")
      ELSE IF IsAlpha(char) \/ char = "_" THEN TokenizeElementOrAttribute(lx)
      ELSE [lx EXCEPT !.position = lx.position + 1]

\* whether the loop of Lexer.tokenize runs once more
LexerRunning(lx) == lx.error = "none" /\ lx.position < Len(lx.source)

\* one iteration of the loop of Lexer.tokenize
TokenizeStep(lx) ==
  LET l1 == IF lx.position = 0 \/ At(lx.source, lx.position - 1) = "\n"
            THEN HandleIndentation(lx) ELSE lx
  IN  IF l1.error # "none" \/ l1.position >= Len(l1.source) THEN l1
      ELSE TokenizeAt(l1)

\* tokenize without its final "while self.indent_stack[-1] > 0" loop
TokenizeFinishNoDedents(lx) ==
  [lx EXCEPT !.tokens = Append(lx.tokens, Token("EOF", ""))]

\* the end of Lexer.tokenize: the remaining DEDENTs, then EOF
TokenizeFinish(lx) ==
  LET l1 == PopDedents(lx, 0)
  IN  [l1 EXCEPT !.tokens = Append(l1.tokens, Token("EOF", ""))]

\* Lexer.tokenize as a function: the final lexer state (tokens, or an error)
RECURSIVE TokenizeFrom(_)
TokenizeFrom(lx) ==
  IF lx.error # "none" THEN lx
  ELSE IF lx.position < Len(lx.source) THEN TokenizeFrom(TokenizeStep(lx))
  ELSE TokenizeFinish(lx)

Tokenize(src) == TokenizeFrom(LexerInit(src))

(***************************************************************************)
(* Syntax tree (clarity_ast.py).  A node is a record tagged by kind.  An   *)
(* Element's content None and a Conditional's else_body None are written   *)
(* "" and <<>>: the generator only ever tests them for truthiness.         *)
(* Dictionaries keep Python's insertion order: a sequence of entries.      *)
(***************************************************************************)

Element(name, attributes, children, content) ==
  [kind |-> "Element", name |-> name, attributes |-> attributes,
   children |-> children, content |-> content]
TextContent(value) == [kind |-> "TextContent", value |-> value]
VariableDeclaration(name, value) ==
  [kind |-> "VariableDeclaration", name |-> name, value |-> value]
ForLoop(iterator, iterable, body) ==
  [kind |-> "ForLoop", iterator |-> iterator, iterable |-> iterable, body |-> body]
Conditional(condition, if_body, else_body) ==
  [kind |-> "Conditional", condition |-> condition, if_body |-> if_body,
   else_body |-> else_body]
ComponentDefinition(name, parameters, default_values, body) ==
  [kind |-> "ComponentDefinition", name |-> name, parameters |-> parameters,
   default_values |-> default_values, body |-> body]
ComponentUse(name, arguments) ==
  [kind |-> "ComponentUse", name |-> name, arguments |-> arguments]

\* "return None" of a statement routine
NoNode == [kind |-> "None"]

\* key in d
DictHas(d, k) == \E i \in 1..Len(d) : d[i].key = k

\* d[k], for a key that is there
DictGet(d, k) == d[CHOOSE i \in 1..Len(d) : d[i].key = k].value

\* d[k] = v: an existing key keeps its place, a new one goes last
DictSet(d, k, v) ==
  IF DictHas(d, k)
  THEN [i \in 1..Len(d) |-> IF d[i].key = k THEN [key |-> k, value |-> v] ELSE d[i]]
  ELSE Append(d, [key |-> k, value |-> v])

\* del d[k]
DictDel(d, k) == SelectSeq(d, LAMBDA e : e.key # k)

\* the set of a dictionary's keys
DictKeys(d) == {d[i].key : i \in 1..Len(d)}

\* "for name, value in d.items(): if name in text: text = text.replace(name,
\* value)", the substitution loop shared by the parser's attribute values and
\* the generator's _replace_variables
RECURSIVE ReplaceAll(_, _, _)
ReplaceAll(text, d, i) ==
  IF i > Len(d) THEN text
  ELSE ReplaceAll(Replace(text, d[i].key, d[i].value), d, i + 1)

(***************************************************************************)
(* Parser (clarity_parser.py)                                              *)
(***************************************************************************)

\* Parser.__init__; errors counts the calls of _error
ParserInit(tokens) == [tokens |-> tokens, position |-> 0, variables |-> <<>>, errors |-> 0]

\* Parser._peek (positions are 0-based)
Peek(p) == p.tokens[p.position + 1]

\* _is_at_end without its test for EOF
IsAtEndOfList(p) == p.position >= Len(p.tokens)

\* Parser._is_at_end
IsAtEnd(p) == p.position >= Len(p.tokens) \/ Peek(p).type = "EOF"

\* Parser._check
Check(p, type) == ~IsAtEnd(p) /\ Peek(p).type = type

\* Parser._advance
Advance(p) == IF IsAtEnd(p) THEN p ELSE [p EXCEPT !.position = p.position + 1]

\* Parser._error
Error(p) == [p EXCEPT !.errors = p.errors + 1]

\* Parser._consume: the parser after it (the token it returns is Peek(p) either way)
Consume(p, type) == IF Check(p, type) THEN Advance(p) ELSE Error(p)

\* the parser with a node (or NoNode) it has just built
Result(p, node) == [p |-> p, node |-> node]

\* text up to its first newline: what the regex tail (.*) or (.+) captures
UpToNewline(s) == Slice(s, 0, ScanNotIn(s, 0, {"\n"}))

\* re.match(r'\$([\w_]+)\s*=\s*(.*)', value): <<name, value>>, or <<>>
MatchVariableDeclaration(v) ==
  LET a == ScanIn(v, 1, WordChars)
      b == ScanIn(v, a, SpaceChars)
      c == ScanIn(v, b + 1, SpaceChars)
  IN  IF At(v, 0) = "$" /\ a > 1 /\ At(v, b) = "="
      THEN <<Slice(v, 1, a), UpToNewline(From(v, c))>>
      ELSE <<>>

\* Parser._parse_variable_declaration
ParseVariableDeclaration(p) ==
  LET token == Peek(p)
      p1    == Consume(p, "VARIABLE_DECL")
      m     == MatchVariableDeclaration(token.value)
  IN  IF m = <<>> THEN Result(Error(p1), VariableDeclaration("error", ""))
      ELSE LET var_value == UnquoteDouble(Strip(m[2]))
           IN  Result([p1 EXCEPT !.variables = DictSet(p1.variables, "$" \o m[1], var_value)],
                      VariableDeclaration(m[1], var_value))

\* Parser._parse_multiline_string
ParseMultilineString(p) == Result(Consume(p, "MULTILINE_STRING"), TextContent(Peek(p).value))

\* the character loop of _parse_attributes: the pieces of attr_str split on
\* the spaces outside quotes, each stripped, empty ones dropped
RECURSIVE AttrParts(_, _, _, _)
AttrParts(s, i, quote_char, current) ==
  IF i >= Len(s)
  THEN IF Strip(current) # "" THEN <<Strip(current)>> ELSE <<>>
  ELSE LET char == At(s, i)
           q    == IF char \in {"\"", "'"}
                   THEN IF quote_char = "" THEN char
                        ELSE IF char = quote_char THEN "" ELSE quote_char
                   ELSE quote_char
           cur  == current \o char
       IN  IF char = " " /\ q = ""
           THEN (IF Strip(cur) # "" THEN <<Strip(cur)>> ELSE <<>>) \o AttrParts(s, i + 1, q, "")
           ELSE AttrParts(s, i + 1, q, cur)

\* attributes[key] = value, where Python's True (a boolean attribute) is the
\* entry flagged bare
AttrSet(d, k, v, bare) ==
  LET e == [key |-> k, value |-> v, bare |-> bare]
  IN  IF DictHas(d, k)
      THEN [i \in 1..Len(d) |-> IF d[i].key = k THEN e ELSE d[i]]
      ELSE Append(d, e)

\* the second loop of _parse_attributes: key=value pieces (value unquoted, the
\* variables declared so far substituted) and bare boolean attributes
RECURSIVE AttrDict(_, _, _, _)
AttrDict(parts, i, variables, acc) ==
  IF i > Len(parts) THEN acc
  ELSE LET attr == parts[i]
           k    == Find(attr, "=", 0)
       IN  IF k >= 0
           THEN LET key   == Strip(Slice(attr, 0, k))
                    value == ReplaceAll(UnquoteAny(Strip(From(attr, k + 1))), variables, 1)
                IN  AttrDict(parts, i + 1, variables, AttrSet(acc, key, value, FALSE))
           ELSE AttrDict(parts, i + 1, variables, AttrSet(acc, Strip(attr), "", TRUE))

\* Parser._parse_attributes
ParseAttributes(p, attr_str) == AttrDict(AttrParts(attr_str, 0, "", ""), 1, p.variables, <<>>)

\* Parser._parse_content: a result whose node is the content text
ParseContent(p) ==
  LET token == Peek(p)
  IN  IF Check(p, "STRING") THEN Result(Advance(p), UnquoteDouble(token.value))
      ELSE IF Check(p, "MULTILINE_STRING") THEN Result(Advance(p), token.value)
      ELSE IF Check(p, "VARIABLE_REF")
        THEN Result(Advance(p),
                    IF DictHas(p.variables, token.value)
                    THEN DictGet(p.variables, token.value) ELSE token.value)
      ELSE IF Check(p, "CONTENT") THEN Result(Advance(p), token.value)
      ELSE Result(p, "")

\* re.match(r'for\s+(\w+)\s+in\s+(.+)', value): <<iterator, iterable>>, or <<>>
\* (on a header with something other than whitespace after "in")
MatchForLoop(v) ==
  LET a == ScanIn(v, 3, SpaceChars)
      b == ScanIn(v, a, WordChars)
      c == ScanIn(v, b, SpaceChars)
      d == ScanIn(v, c + 2, SpaceChars)
  IN  IF /\ Slice(v, 0, 3) = "for" /\ a > 3 /\ b > a /\ c > b
         /\ Slice(v, c, c + 2) = "in" /\ d > c + 2 /\ d < Len(v)
      THEN <<Slice(v, a, b), UpToNewline(From(v, d))>>
      ELSE <<>>

\* re.match(r'if\s+(.+)', value): <<condition>>, or <<>>
MatchIf(v) ==
  LET a == ScanIn(v, 2, SpaceChars)
  IN  IF Slice(v, 0, 2) = "if" /\ a > 2 /\ a < Len(v)
      THEN <<UpToNewline(From(v, a))>>
      ELSE <<>>

\* re.match(r'@component\s+(\w+)\s*\(([^)]*)\)\s*', value): <<name, params>>, or <<>>
MatchComponentDefinition(v) ==
  LET a == ScanIn(v, 10, SpaceChars)
      b == ScanIn(v, a, WordChars)
      c == ScanIn(v, b, SpaceChars)
      d == ScanNotIn(v, c + 1, {")"})
  IN  IF /\ Slice(v, 0, 10) = "@component" /\ a > 10 /\ b > a
         /\ At(v, c) = "(" /\ At(v, d) = ")"
      THEN <<Slice(v, a, b), Slice(v, c + 1, d)>>
      ELSE <<>>

\* re.match(r'@(\w+)(?:\s*\(([^)]*)\))?', value): <<name, args>> (args "" when
\* the optional group is absent), or <<>>
MatchComponentUse(v) ==
  LET b == ScanIn(v, 1, WordChars)
      c == ScanIn(v, b, SpaceChars)
      d == ScanNotIn(v, c + 1, {")"})
  IN  IF At(v, 0) = "@" /\ b > 1
      THEN IF At(v, c) = "(" /\ At(v, d) = ")"
           THEN <<Slice(v, 1, b), Slice(v, c + 1, d)>>
           ELSE <<Slice(v, 1, b), "">>
      ELSE <<>>

\* the parameter loop of _parse_component_definition: [parameters, default_values]
RECURSIVE ParamList(_, _, _)
ParamList(pieces, i, acc) ==
  IF i > Len(pieces) THEN acc
  ELSE LET param == Strip(pieces[i])
           k     == Find(param, "=", 0)
       IN  IF k >= 0
           THEN LET param_name == Strip(Slice(param, 0, k))
                    default    == UnquoteAny(Strip(From(param, k + 1)))
                IN  ParamList(pieces, i + 1,
                              [parameters |-> Append(acc.parameters, param_name),
                               default_values |-> DictSet(acc.default_values, param_name, default)])
           ELSE ParamList(pieces, i + 1,
                          [acc EXCEPT !.parameters = Append(acc.parameters, param)])

\* the argument loop of _parse_component_use: [arguments, errors]
RECURSIVE ArgList(_, _, _)
ArgList(pieces, i, acc) ==
  IF i > Len(pieces) THEN acc
  ELSE LET arg == Strip(pieces[i])
           k   == Find(arg, "=", 0)
       IN  IF k >= 0
           THEN ArgList(pieces, i + 1,
                        [acc EXCEPT !.arguments =
                           DictSet(acc.arguments, Strip(Slice(arg, 0, k)),
                                   UnquoteAny(Strip(From(arg, k + 1))))])
           ELSE ArgList(pieces, i + 1, [acc EXCEPT !.errors = acc.errors + 1])

\* Parser._parse_component_use
ParseComponentUse(p) ==
  LET token == Peek(p)
      p1    == Consume(p, "COMPONENT_USE")
      m     == MatchComponentUse(token.value)
  IN  IF m = <<>> THEN Result(Error(p1), ComponentUse("error", <<>>))
      ELSE LET args == IF Strip(m[2]) # ""
                       THEN ArgList(Split(m[2], ","), 1, [arguments |-> <<>>, errors |-> 0])
                       ELSE [arguments |-> <<>>, errors |-> 0]
           IN  Result([p1 EXCEPT !.errors = p1.errors + args.errors],
                      ComponentUse(m[1], args.arguments))

RECURSIVE ParseStatement(_)
RECURSIVE ParseBlock(_, _)

\* "consume NEWLINE, consume INDENT, parse a block, consume DEDENT": the body
\* of a for-loop, a conditional branch or a component definition
ParseBody(p) ==
  LET b == ParseBlock(Consume(Consume(p, "NEWLINE"), "INDENT"), <<>>)
  IN  Result(Consume(b.p, "DEDENT"), b.node)

\* _parse_element with "if" for the "else" of the block: the indented block
\* after inline content is parsed as the element's children too
ParseElementContentAndBlock(p) ==
  LET element_name == Peek(p).value
      p1 == Consume(p, "ELEMENT")
      p3 == Consume(p1, "COLON")
      c  == IF Check(p3, "STRING") THEN ParseContent(p3) ELSE Result(p3, "")
  IN  IF Check(c.p, "NEWLINE") /\ Check(Consume(c.p, "NEWLINE"), "INDENT")
      THEN LET b == ParseBlock(Consume(Consume(c.p, "NEWLINE"), "INDENT"), <<>>)
           IN  Result(Consume(b.p, "DEDENT"), Element(element_name, <<>>, b.node, c.node))
      ELSE Result(c.p, Element(element_name, <<>>, <<>>, c.node))

\* Parser._parse_element
ParseElement(p) ==
  LET element_name == Peek(p).value
      p1 == Consume(p, "ELEMENT")
      has_attr == Check(p1, "ATTRIBUTE")
      attributes == IF has_attr THEN ParseAttributes(p1, Peek(p1).value) ELSE <<>>
      p2 == IF has_attr THEN Consume(p1, "ATTRIBUTE") ELSE p1
      p3 == Consume(p2, "COLON")
  IN  IF \/ Check(p3, "STRING") \/ Check(p3, "VARIABLE_REF")
         \/ Check(p3, "CONTENT") \/ Check(p3, "MULTILINE_STRING")
      THEN LET c == ParseContent(p3)
           IN  Result(c.p, Element(element_name, attributes, <<>>, c.node))
      ELSE IF Check(p3, "NEWLINE")
      THEN LET p4 == Consume(p3, "NEWLINE")
           IN  IF Check(p4, "INDENT")
               THEN LET b == ParseBlock(Consume(p4, "INDENT"), <<>>)
                    IN  Result(Consume(b.p, "DEDENT"),
                               Element(element_name, attributes, b.node, ""))
               ELSE Result(p4, Element(element_name, attributes, <<>>, ""))
      ELSE Result(p3, Element(element_name, attributes, <<>>, ""))

\* Parser._parse_for_loop
ParseForLoop(p) ==
  LET m  == MatchForLoop(Peek(p).value)
      p1 == Consume(p, "FOR_LOOP")
  IN  IF m = <<>> THEN Result(Error(p1), ForLoop("error", "error", <<>>))
      ELSE LET b == ParseBody(Consume(p1, "COLON"))
           IN  Result(b.p, ForLoop(m[1], m[2], b.node))

\* Parser._parse_conditional
ParseConditional(p) ==
  LET m  == MatchIf(Peek(p).value)
      p1 == Consume(p, "IF_STATEMENT")
  IN  IF m = <<>> THEN Result(Error(p1), Conditional("True", <<>>, <<>>))
      ELSE LET b == ParseBody(Consume(p1, "COLON"))
           IN  IF Check(b.p, "ELSE_STATEMENT")
               THEN LET e == ParseBody(Consume(b.p, "ELSE_STATEMENT"))
                    IN  Result(e.p, Conditional(m[1], b.node, e.node))
               ELSE Result(b.p, Conditional(m[1], b.node, <<>>))

\* Parser._parse_component_definition (the parser's own component table, which
\* nothing reads, is left out)
ParseComponentDefinition(p) ==
  LET value == Peek(p).value
      m  == MatchComponentDefinition(value)
      p1 == Consume(p, "COMPONENT_DEF")
  IN  IF m = <<>> THEN Result(Error(p1), ComponentDefinition("error", <<>>, <<>>, <<>>))
      ELSE LET params == IF Strip(m[2]) # ""
                         THEN ParamList(Split(m[2], ","), 1,
                                        [parameters |-> <<>>, default_values |-> <<>>])
                         ELSE [parameters |-> <<>>, default_values |-> <<>>]
               p2 == IF EndsWith(value, ":") THEN p1 ELSE Consume(p1, "COLON")
               b  == ParseBody(p2)
           IN  Result(b.p, ComponentDefinition(m[1], params.parameters,
                                               params.default_values, b.node))

\* Parser._parse_statement
ParseStatement(p) ==
  LET type == Peek(p).type
  IN  IF type = "VARIABLE_DECL" THEN ParseVariableDeclaration(p)
      ELSE IF type = "COMPONENT_DEF" THEN ParseComponentDefinition(p)
      ELSE IF type = "ELEMENT" THEN ParseElement(p)
      ELSE IF type = "FOR_LOOP" THEN ParseForLoop(p)
      ELSE IF type = "IF_STATEMENT" THEN ParseConditional(p)
      ELSE IF type = "COMPONENT_USE" THEN ParseComponentUse(p)
      ELSE IF type \in {"NEWLINE", "COMMENT"} THEN Result(Advance(p), NoNode)
      ELSE IF type = "MULTILINE_STRING" THEN ParseMultilineString(p)
      ELSE Result(Advance(Error(p)), NoNode)

\* Parser._parse_block: the statements up to a DEDENT (or the end)
ParseBlock(p, statements) ==
  IF ~IsAtEnd(p) /\ ~Check(p, "DEDENT")
  THEN LET r == ParseStatement(p)
       IN  ParseBlock(r.p, IF r.node = NoNode THEN statements ELSE Append(statements, r.node))
  ELSE Result(p, statements)

\* the loop of Parser.parse: the statements up to EOF
RECURSIVE ParseTop(_, _)
ParseTop(p, children) ==
  IF ~IsAtEnd(p) /\ Peek(p).type # "EOF"
  THEN LET r == ParseStatement(p)
       IN  ParseTop(r.p, IF r.node = NoNode THEN children ELSE Append(children, r.node))
  ELSE Result(p, children)

\* Parser.parse: the Document's children (node) and the parser's final state (p)
Parse(tokens) == ParseTop(ParserInit(tokens), <<>>)

(***************************************************************************)
(* Generator (clarity_compiler.py).  The generator's state is the record   *)
(* of the Compiler object's fields plus stack, the pending work of the     *)
(* recursive emission pass: what the Python call stack still has to do,    *)
(* first frame first.                                                      *)
(***************************************************************************)

NodeFrame(n) == [f |-> "node", node |-> n]

\* "for node in nodes: self._compile_node(node)" as pending work
NodeFrames(nodes) == [i \in 1..Len(nodes) |-> NodeFrame(nodes[i])]

\* self.output_lines.append(line)
Emit(g, line) == [g EXCEPT !.output_lines = Append(@, line)]

\* work pushed in front of what is pending
Push(g, frames) == [g EXCEPT !.stack = frames \o @]

\* Compiler._collect_components
RECURSIVE CollectComponents(_, _, _)
CollectComponents(components, nodes, i) ==
  IF i > Len(nodes) THEN components
  ELSE LET node == nodes[i]
       IN  IF node.kind = "ComponentDefinition"
           THEN CollectComponents(DictSet(components, node.name, node), nodes, i + 1)
           ELSE IF node.kind = "Element" /\ node.children # <<>>
           THEN CollectComponents(CollectComponents(components, node.children, 1), nodes, i + 1)
           ELSE CollectComponents(components, nodes, i + 1)

\* Compiler.__init__ followed by the first pass of Compiler.compile; the
\* second pass is the top-level nodes as pending work
CompilerInit(children) ==
  [components |-> CollectComponents(<<>>, children, 1), variables |-> <<>>,
   output_lines |-> <<>>, indentation |-> 0, stack |-> NodeFrames(children)]

\* Compiler._replace_variables
ReplaceVariables(g, text) == ReplaceAll(text, g.variables, 1)

\* ' '.join(pieces)
RECURSIVE JoinWith(_, _)
JoinWith(pieces, sep) ==
  IF pieces = <<>> THEN ""
  ELSE IF Len(pieces) = 1 THEN pieces[1]
  ELSE pieces[1] \o sep \o JoinWith(Tail(pieces), sep)

\* Compiler._compile_attributes
CompileAttributes(attributes) ==
  JoinWith([i \in 1..Len(attributes) |->
              IF attributes[i].bare THEN attributes[i].key
              ELSE attributes[i].key \o "=\"" \o attributes[i].value \o "\""], " ")

\* an opening tag whose attributes go through _replace_variables
OpeningTagSubstituted(g, element) ==
  LET attrs == ReplaceVariables(g, CompileAttributes(element.attributes))
  IN  Spaces(g.indentation) \o "<" \o element.name
        \o (IF attrs # "" THEN " " \o attrs ELSE "") \o ">"

\* the opening tag line of _compile_element and _compile_special_element
OpeningTag(g, element) ==
  LET attrs == CompileAttributes(element.attributes)
  IN  Spaces(g.indentation) \o "<" \o element.name
        \o (IF attrs # "" THEN " " \o attrs ELSE "") \o ">"

ClosingTag(g, tag) == Spaces(g.indentation) \o "</" \o tag \o ">"

\* str.rfind(sub): the last index where sub occurs in s, or -1
RECURSIVE RFind(_, _, _)
RFind(s, sub, i) ==
  IF i < 0 THEN -1
  ELSE IF Slice(s, i, i + Len(sub)) = sub THEN i
  ELSE RFind(s, sub, i - 1)

\* the first search of _compile_special_element: the inside of the first text
\* child that is a triple-quoted block, or "" (None)
RECURSIVE DirectMultiline(_, _)
DirectMultiline(children, i) ==
  IF i > Len(children) THEN ""
  ELSE LET child == children[i]
           text  == IF child.kind = "TextContent" THEN Strip(child.value) ELSE ""
       IN  IF child.kind = "TextContent" /\ StartsWith(text, "\"\"\"") /\ EndsWith(text, "\"\"\"")
           THEN Slice(text, 3, Len(text) - 3)
           ELSE DirectMultiline(children, i + 1)

\* the second search: the text between the first and the last triple quote of
\* the first child element whose inline content has one inside the other
RECURSIVE NestedMultiline(_, _)
NestedMultiline(children, i) ==
  IF i > Len(children) THEN ""
  ELSE LET child   == children[i]
           content == IF child.kind = "Element" THEN child.content ELSE ""
           start   == Find(content, "\"\"\"", 0) + 3
           end     == RFind(content, "\"\"\"", Len(content) - 3)
       IN  IF content # "" /\ Contains(content, "\"\"\"") /\ end > start
           THEN Slice(content, start, end)
           ELSE NestedMultiline(children, i + 1)

\* "for line in lines: append(' ' * (indentation + 2) + line)"
RECURSIVE EmitLines(_, _, _)
EmitLines(g, lines, i) ==
  IF i > Len(lines) THEN g
  ELSE EmitLines(Emit(g, Spaces(g.indentation + 2) \o lines[i]), lines, i + 1)

\* Compiler._compile_special_element
CompileSpecialElement(g, element) ==
  LET g1 == Emit(g, OpeningTag(g, element))
      direct == DirectMultiline(element.children, 1)
      multiline_content == IF direct # "" THEN direct
                           ELSE NestedMultiline(element.children, 1)
      g2 == IF multiline_content # ""
            THEN EmitLines(g1, Split(multiline_content, "\n"), 1) ELSE g1
  IN  Emit(g2, ClosingTag(g, element.name))

\* Compiler._compile_element
CompileElement(g, element) ==
  IF element.name = "document"
  THEN Push(Emit(Emit(g, "<!DOCTYPE html>"), "<html>"),
            NodeFrames(element.children) \o <<[f |-> "close_document"]>>)
  ELSE IF element.name \in {"style", "script"} THEN CompileSpecialElement(g, element)
  ELSE LET g1 == Emit(g, OpeningTag(g, element))
       IN  IF element.content # ""
           THEN Push(g1, <<[f |-> "content", element |-> element]>>)
           ELSE IF element.children # <<>>
           THEN Push([g1 EXCEPT !.indentation = @ + 2],
                     NodeFrames(element.children) \o <<[f |-> "close", tag |-> element.name]>>)
           ELSE Emit(g1, ClosingTag(g, element.name))

\* the line just appended replaced by the content alone
ElementContentAlone(g, element) ==
  [g EXCEPT !.output_lines[Len(g.output_lines)] =
     Spaces(g.indentation) \o ReplaceVariables(g, element.content)]

\* _compile_element, "Add content if available": the line just appended is
\* rewritten to hold the content and the closing tag
ElementContent(g, element) ==
  LET n       == Len(g.output_lines)
      last    == g.output_lines[n]
      content == ReplaceVariables(g, element.content)
  IN  [g EXCEPT !.output_lines[n] =
         Slice(last, 0, Len(last) - 1) \o ">" \o content \o "</" \o element.name \o ">"]

\* the closing tag without "self.indentation -= 2"
CloseElementKeepsIndentation(g, tag) ==
  Emit(g, Spaces(g.indentation - 2) \o "</" \o tag \o ">")

\* _compile_element after the children: indentation back, the closing tag
CloseElement(g, tag) ==
  LET g1 == [g EXCEPT !.indentation = @ - 2]
  IN  Emit(g1, ClosingTag(g1, tag))

\* _compile_element after the children of the document element
CloseDocument(g) == Emit(g, "</html>")

\* Compiler._compile_text
CompileText(g, text) == Emit(g, Spaces(g.indentation) \o ReplaceVariables(g, text.value))

\* Compiler._compile_variable_declaration
CompileVariableDeclaration(g, var_decl) ==
  [g EXCEPT !.variables = DictSet(@, "$" \o var_decl.name, var_decl.value)]

\* "[item.strip() for item in items]"
StripEach(items) == [i \in 1..Len(items) |-> Strip(items[i])]

\* the items with the double quotes removed from each item that has them
ListItemsEachUnquoted(raw_value) ==
  LET items == StripEach(Split(Slice(raw_value, 1, Len(raw_value) - 1), ","))
  IN  [i \in 1..Len(items) |->
         IF StartsWith(items[i], "\"") /\ EndsWith(items[i], "\"")
         THEN Slice(items[i], 1, Len(items[i]) - 1) ELSE items[i]]

\* the items of a list-literal text, as _compile_for_loop reads them: split
\* on commas, trimmed, the double quotes removed when every item has them
ListItems(raw_value) ==
  LET items == StripEach(Split(Slice(raw_value, 1, Len(raw_value) - 1), ","))
  IN  IF \A i \in 1..Len(items) : StartsWith(items[i], "\"") /\ EndsWith(items[i], "\"")
      THEN [i \in 1..Len(items) |-> Slice(items[i], 1, Len(items[i]) - 1)]
      ELSE items

\* the items _compile_for_loop iterates over for a bound variable's value
LoopItems(raw_value) ==
  IF StartsWith(raw_value, "[") /\ EndsWith(raw_value, "]")
  THEN ListItems(raw_value)
  ELSE <<raw_value>>

\* Compiler._compile_for_loop, up to the loop over the items
CompileForLoop(g, loop) ==
  IF StartsWith(loop.iterable, "$") /\ DictHas(g.variables, loop.iterable)
  THEN Push(g, <<[f |-> "iterate", loop |-> loop,
                  items |-> LoopItems(DictGet(g.variables, loop.iterable))]>>)
  ELSE g

\* _compile_for_loop, "for item in items": the iterator is bound and the body
\* is pending, then the clean-up, then the remaining items
LoopIteration(g, loop, items) ==
  IF items = <<>> THEN g
  ELSE LET temp_var == "$" \o loop.iterator
       IN  Push([g EXCEPT !.variables = DictSet(@, temp_var, Head(items))],
                NodeFrames(loop.body)
                  \o <<[f |-> "cleanup", temp_var |-> temp_var],
                       [f |-> "iterate", loop |-> loop, items |-> Tail(items)]>>)

\* a clean-up that leaves the iterator bound
LoopCleanupKeeps(g, temp_var) == g

\* _compile_for_loop, "Clean up"
LoopCleanup(g, temp_var) ==
  IF DictHas(g.variables, temp_var)
  THEN [g EXCEPT !.variables = DictDel(@, temp_var)]
  ELSE g

\* "for name, value in variables.items(): condition = condition.replace(name,
\* f'"{value}"')"
RECURSIVE QuoteVariables(_, _, _)
QuoteVariables(condition, d, i) ==
  IF i > Len(d) THEN condition
  ELSE QuoteVariables(Replace(condition, d[i].key, "\"" \o d[i].value \o "\""), d, i + 1)

\* whether text is one double-quoted Python string literal without escapes
IsStringLiteral(text) ==
  /\ Len(text) >= 2 /\ At(text, 0) = "\"" /\ Find(text, "\"", 1) = Len(text) - 1
  /\ ~Contains(text, "\\") /\ ~Contains(text, "\n")

\* eval(condition) with "except Exception: result = False", for the condition
\* texts this model draws: True, False, a string literal, and == or != between
\* two string literals; any other text stands for one whose evaluation raises
\* (an unsubstituted $name is not Python)
EvalCondition(condition) ==
  LET text == Strip(condition)
      q    == Find(text, "\"", 1)
      lhs  == Slice(text, 0, q + 1)
      rest == Strip(From(text, q + 1))
      op   == Slice(rest, 0, 2)
      rhs  == Strip(From(rest, 2))
  IN  IF text = "True" THEN TRUE
      ELSE IF text = "False" THEN FALSE
      ELSE IF IsStringLiteral(text) THEN Len(text) > 2
      ELSE IF At(text, 0) = "\"" /\ q >= 1 /\ IsStringLiteral(lhs)
              /\ op \in {"==", "!="} /\ IsStringLiteral(rhs)
      THEN IF op = "==" THEN lhs = rhs ELSE lhs # rhs
      ELSE FALSE

\* _compile_conditional with "if" in place of "elif": the else-body is
\* emitted whatever the condition
CompileConditionalBoth(g, cond) ==
  IF EvalCondition(QuoteVariables(cond.condition, g.variables, 1))
  THEN Push(g, NodeFrames(cond.if_body) \o NodeFrames(cond.else_body))
  ELSE Push(g, NodeFrames(cond.else_body))

\* Compiler._compile_conditional
CompileConditional(g, cond) ==
  IF EvalCondition(QuoteVariables(cond.condition, g.variables, 1))
  THEN Push(g, NodeFrames(cond.if_body))
  ELSE IF cond.else_body # <<>> THEN Push(g, NodeFrames(cond.else_body))
  ELSE g

\* "for param, value in d.items(): self.variables[f'${param}'] = value"
RECURSIVE BindAll(_, _, _)
BindAll(variables, d, i) ==
  IF i > Len(d) THEN variables
  ELSE BindAll(DictSet(variables, "$" \o d[i].key, d[i].value), d, i + 1)

\* d.update(e)
RECURSIVE DictUpdate(_, _, _)
DictUpdate(d, e, i) ==
  IF i > Len(e) THEN d ELSE DictUpdate(DictSet(d, e[i].key, e[i].value), e, i + 1)

\* the restore written as self.variables.update(old_vars): the old values come
\* back, the names the body declared stay
RestoreByUpdate(g, old_vars) == [g EXCEPT !.variables = DictUpdate(@, old_vars, 1)]

\* _compile_component_use, "Restore original variables"
RestoreVariables(g, old_vars) == [g EXCEPT !.variables = old_vars]

\* _compile_component_use with its two binding loops in the other order: the
\* defaults overwrite the arguments
CompileComponentUseDefaultsWin(g, comp_use) ==
  IF ~DictHas(g.components, comp_use.name) THEN g
  ELSE LET component == DictGet(g.components, comp_use.name)
           old_vars  == g.variables
           bound     == BindAll(BindAll(g.variables, comp_use.arguments, 1),
                                component.default_values, 1)
       IN  Push([g EXCEPT !.variables = bound],
                NodeFrames(component.body) \o <<[f |-> "restore", old_vars |-> old_vars]>>)

\* _compile_component_use with the arguments bound before the name is looked
\* up: an unknown name leaves them in the environment
CompileComponentUseBindFirst(g, comp_use) ==
  IF ~DictHas(g.components, comp_use.name)
  THEN [g EXCEPT !.variables = BindAll(@, comp_use.arguments, 1)]
  ELSE LET component == DictGet(g.components, comp_use.name)
           old_vars  == g.variables
           bound     == BindAll(BindAll(g.variables, component.default_values, 1),
                                comp_use.arguments, 1)
       IN  Push([g EXCEPT !.variables = bound],
                NodeFrames(component.body) \o <<[f |-> "restore", old_vars |-> old_vars]>>)

\* Compiler._compile_component_use, up to the body
CompileComponentUse(g, comp_use) ==
  IF ~DictHas(g.components, comp_use.name) THEN g
  ELSE LET component == DictGet(g.components, comp_use.name)
           old_vars  == g.variables
           bound     == BindAll(BindAll(g.variables, component.default_values, 1),
                                comp_use.arguments, 1)
       IN  Push([g EXCEPT !.variables = bound],
                NodeFrames(component.body) \o <<[f |-> "restore", old_vars |-> old_vars]>>)

\* Compiler._compile_node
CompileNode(g, node) ==
  IF node.kind = "Element" THEN CompileElement(g, node)
  ELSE IF node.kind = "TextContent" THEN CompileText(g, node)
  ELSE IF node.kind = "VariableDeclaration" THEN CompileVariableDeclaration(g, node)
  ELSE IF node.kind = "ForLoop" THEN CompileForLoop(g, node)
  ELSE IF node.kind = "Conditional" THEN CompileConditional(g, node)
  ELSE IF node.kind = "ComponentDefinition" THEN g
  ELSE IF node.kind = "ComponentUse" THEN CompileComponentUse(g, node)
  ELSE g

\* one step of the emission pass: the first pending frame is taken and done
CompileStep(g) ==
  LET fr == Head(g.stack)
      g0 == [g EXCEPT !.stack = Tail(@)]
  IN  IF fr.f = "node" THEN CompileNode(g0, fr.node)
      ELSE IF fr.f = "content" THEN ElementContent(g0, fr.element)
      ELSE IF fr.f = "close" THEN CloseElement(g0, fr.tag)
      ELSE IF fr.f = "close_document" THEN CloseDocument(g0)
      ELSE IF fr.f = "iterate" THEN LoopIteration(g0, fr.loop, fr.items)
      ELSE IF fr.f = "cleanup" THEN LoopCleanup(g0, fr.temp_var)
      ELSE RestoreVariables(g0, fr.old_vars)

\* the generator once the first pending frame, and all the work it brings,
\* is done: the state in which the call for that frame returns
RECURSIVE RunUntil(_, _)
RunUntil(g, depth) == IF Len(g.stack) <= depth THEN g ELSE RunUntil(CompileStep(g), depth)

After(g) == RunUntil(CompileStep(g), Len(g.stack) - 1)

\* Compiler.compile on a Document's children: the final generator state
Compile(children) == RunUntil(CompilerInit(children), 0)

\* '\n'.join(self.output_lines)
Html(g) == JoinWith(g.output_lines, "\n")

(***************************************************************************)
(* The compilation pipeline as a state machine: compile_clarity_file runs  *)
(* the lexer (one loop iteration per step), the parser, the generator's    *)
(* collection pass and then the emission pass (one frame per step).        *)
(***************************************************************************)

VARIABLES
  pc,        \* where the pipeline stands
  lexer,     \* the Lexer object
  parser,    \* the Parser object
  ast,       \* the Document's children, once parsed
  compiler   \* the Compiler object and its pending work

vars == <<pc, lexer, parser, ast, compiler>>

\* the longest document, in snippets
MaxSnippets == 3

\* every concatenation of at most n snippets of a pool
RECURSIVE Concats(_, _)
Concats(pool, n) ==
  IF n = 0 THEN {""}
  ELSE {""} \cup {s \o d : s \in pool, d \in Concats(pool, n - 1)}

\* the documents of the specification's own examples
SrcHello == "document:\n  div:\n    \"Hello\""
SrcGreetingStatement == "$name = \"World\"\n\"Hello, $name!\"\n"
SrcGreetingInline == "$name = \"World\"\np: \"Hello, $name!\"\n"
SrcGreetingChild == "$name = \"World\"\ndiv:\n  \"Hello, $name!\"\n"
SrcItemsLoop == "$items = [\"a\", \"b\", \"c\"]\nfor x in $items:\n  li: $x\n"
SrcTextBlock == "$name = \"World\"\nsection id=\"s\" hidden:\n  \"\"\"Hello, $name!\"\"\"\nstyle:\n  \"\"\"\n  p {}\n  \"\"\"\n"

ExampleDocs ==
  {SrcHello, SrcGreetingStatement, SrcGreetingInline, SrcGreetingChild,
   SrcItemsLoop, SrcTextBlock}

\* conditionals on $flag
FlagYes == "$flag = \"yes\"\n"
FlagNo == "$flag = \"no\"\n"
IfElse == "if $flag == \"yes\":\n  p: \"Y\"\nelse:\n  p: \"N\"\n"
IfOnly == "div:\n  if $flag == \"yes\":\n    p: \"Y\"\n"

ConditionalPool == {FlagYes, FlagNo, IfElse, IfOnly}

\* components with defaults, used with and without arguments
DefBox == "@component Box(color=\"blue\"):\n  p: \"$color\"\n"
DefCard ==
  "@component Card(title=\"T\", color=\"blue\", plain):\n"
    \o "  $tmp = \"t\"\n"
    \o "  if \"a\" == \"a\":\n    $inner = \"i\"\n"
    \o "  for  k in $title:\n    $seen = \"s\"\n"
    \o "  @Box(color=\"pink\")\n"
    \o "  h1: \"$title $color\"\n"
ColorGreen == "$color = \"green\"\n"
UseBoxes == "@Box()\nul:\n  @Box(color=\"red\")\n"
UseCard == "@Card(color=\"red\", extra=\"e\")\n"
UseNope == "p: \"$color\"\n@Nope(color=\"red\")\n"

ComponentPool == {DefBox, DefCard, ColorGreen, UseBoxes, UseCard, UseNope}

\* for-loops over list text, other text, an unbound name and a bare word
ItemsAB == "$items = [\"a\", \"b\"]\n"
WordAbc == "$word = \"abc\"\n"
LoopItems2 == "ul:\n  for  x in $items:\n    li: $x\n"
LoopWord == "for  x in $word:\n  li: $x\n"
LoopsSkipped == "for  x in $nothing:\n  li: $x\nfor  x in items:\n  li: $x\n"

LoopPool == {ItemsAB, WordAbc, LoopItems2, LoopWord, LoopsSkipped}

\* component definitions at top level and nested in other constructs
DefTop == "@component T():\n  p: \"t\"\n"
DefInElement == "div:\n  @component E():\n    p: \"e\"\n"
DefInIf == "if \"a\" == \"a\":\n  @component I():\n    p: \"i\"\n"
DefInLoop == "$one = \"1\"\nfor  k in $one:\n  @component L():\n    p: \"l\"\n"
UseAll == "@T()\n@E()\n@I()\n@L()\n"

CollectPool == {DefTop, DefInElement, DefInIf, DefInLoop, UseAll}

\* an element whose inline content is a reference to the variable of its own
\* name: after a declaration, in a component with that parameter, in a loop
\* with that iterator, after a declaration in a branch that is not taken
DefTag == "@component Tag(color=\"blue\"):\n  color: $color\n"
UseTag == "@Tag()\n"
LoopColor == "$items = [a, b]\nfor  color in $items:\n  color: $color\n"
DeclInBranch == "if \"1\" == \"2\":\n  $color = \"red\"\n"
RefColor == "color: $color\n"

ReferencePool == {ColorGreen, DefTag, UseTag, LoopColor, DeclInBranch, RefColor}

\* an element with a reference in an attribute value: before and after a
\* declaration, in a component with that parameter, in a loop with that
\* iterator
ColorRed == "$color = \"red\"\n"
DivColor == "div class=\"$color\":\n"
TagWithAttribute == "@component A(color=\"blue\"):\n  div class=\"$color\":\n@A()\n"
LoopWithAttribute == "$items = [a, b]\nfor  color in $items:\n  div class=\"$color\":\n"

AttributePool ==
  {ColorGreen, ColorRed, DivColor, TagWithAttribute, LoopWithAttribute, DeclInBranch}

\* lists with bare items and with some items quoted, and a loop whose body
\* is two nodes
ItemsBare == "$items = [ a,b , c]\n"
ItemsMixed == "$items = [\"a\", b]\n"
LoopTwoNodes == "for  x in $items:\n  li: \"$x\"\n  hr:\n"

ListPool == {ItemsAB, ItemsBare, ItemsMixed, LoopTwoNodes}

\* a loop whose iterator is declared before it and read after it, the body
\* declaring a variable of its own
DeclX == "$x = \"old\"\n"
LoopOverX == "$items = [a, b]\nfor  x in $items:\n  $last = \"l\"\n  p: \"$x\"\n"
ShowX == "p: \"$x\"\n"

IteratorPool == {DeclX, LoopOverX, ShowX}

\* two variables, the name of one a prefix of the other's, and a text that
\* refers to the longer name
DeclA == "$a = \"1\"\n"
DeclAB == "$ab = \"2\"\n"
ShowAB == "p: \"$ab\"\n"

PrefixPool == {DeclA, DeclAB, ShowAB}

\* the source texts compiled
Documents ==
  ExampleDocs
    \cup Concats(ConditionalPool, MaxSnippets)
    \cup Concats(ComponentPool, MaxSnippets)
    \cup Concats(LoopPool, MaxSnippets)
    \cup Concats(CollectPool, MaxSnippets)
    \cup Concats(ReferencePool, MaxSnippets)
    \cup Concats(AttributePool, MaxSnippets)
    \cup Concats(ListPool, MaxSnippets)
    \cup Concats(IteratorPool, MaxSnippets)
    \cup Concats(PrefixPool, MaxSnippets)

Init ==
  /\ pc = "tokenize"
  /\ \E src \in Documents : lexer = LexerInit(src)
  /\ parser = ParserInit(<<>>)
  /\ ast = <<>>
  /\ compiler = CompilerInit(<<>>)

\* one iteration of the loop of Lexer.tokenize; a SyntaxError ends the run
LexStep ==
  /\ pc = "tokenize"
  /\ LexerRunning(lexer)
  /\ lexer' = TokenizeStep(lexer)
  /\ pc' = IF lexer'.error # "none" THEN "failed" ELSE "tokenize"
  /\ UNCHANGED <<parser, ast, compiler>>

\* the end of Lexer.tokenize
LexFinish ==
  /\ pc = "tokenize"
  /\ ~LexerRunning(lexer)
  /\ lexer' = TokenizeFinish(lexer)
  /\ pc' = "parse"
  /\ UNCHANGED <<parser, ast, compiler>>

\* Parser(tokens).parse()
ParseTokens ==
  /\ pc = "parse"
  /\ parser' = Parse(lexer.tokens).p
  /\ ast' = Parse(lexer.tokens).node
  /\ pc' = "compile"
  /\ UNCHANGED <<lexer, compiler>>

\* Compiler(ast) and the first pass of compile()
StartCompile ==
  /\ pc = "compile"
  /\ compiler' = CompilerInit(ast)
  /\ pc' = "emit"
  /\ UNCHANGED <<lexer, parser, ast>>

\* the calls of _compile_component_use that have not returned: the interpreter
\* allows a bounded number of nested calls
MaxDepth == 3
UseDepth(g) == Cardinality({i \in 1..Len(g.stack) : g.stack[i].f = "restore"})

\* the first pending frame, when the emission pass has one
TopFrame == Head(compiler.stack)
Emitting == pc = "emit" /\ compiler.stack # <<>>
AtFrame(f) == Emitting /\ TopFrame.f = f
AtNode(kind) == AtFrame("node") /\ TopFrame.node.kind = kind

EmitStep ==
  /\ compiler' = CompileStep(compiler)
  /\ UNCHANGED <<pc, lexer, parser, ast>>

\* _compile_node on each kind of node
EmitElement == AtNode("Element") /\ EmitStep
EmitText == AtNode("TextContent") /\ EmitStep
EmitVariableDeclaration == AtNode("VariableDeclaration") /\ EmitStep
EmitForLoop == AtNode("ForLoop") /\ EmitStep
EmitConditional == AtNode("Conditional") /\ EmitStep
EmitComponentDefinition == AtNode("ComponentDefinition") /\ EmitStep
EmitComponentUse ==
  /\ AtNode("ComponentUse")
  /\ DictHas(compiler.components, TopFrame.node.name) => UseDepth(compiler) < MaxDepth
  /\ EmitStep

\* what a handler does after the nodes it recursed into
EmitContent == AtFrame("content") /\ EmitStep
EmitClose == AtFrame("close") /\ EmitStep
EmitCloseDocument == AtFrame("close_document") /\ EmitStep
EmitIteration == AtFrame("iterate") /\ EmitStep
EmitCleanup == AtFrame("cleanup") /\ EmitStep
EmitRestore == AtFrame("restore") /\ EmitStep

\* compile() returns the joined lines
Finish ==
  /\ pc = "emit"
  /\ compiler.stack = <<>>
  /\ pc' = "done"
  /\ UNCHANGED <<lexer, parser, ast, compiler>>

Emission ==
  \/ EmitElement \/ EmitText \/ EmitVariableDeclaration \/ EmitForLoop
  \/ EmitConditional \/ EmitComponentDefinition \/ EmitComponentUse
  \/ EmitContent \/ EmitClose \/ EmitCloseDocument
  \/ EmitIteration \/ EmitCleanup \/ EmitRestore

Next == LexStep \/ LexFinish \/ ParseTokens \/ StartCompile \/ Emission \/ Finish

Spec == Init /\ [][Next]_vars

\* ---------------------------------------------------------------------
\* The pipeline on documents whose components use themselves

\* a component that uses itself, two that use each other, and one that uses
\* itself under a condition that its own argument makes false
DefSelf == "@component A():\n  p: \"a\"\n  @A()\n"
DefPing == "@component Ping():\n  @Pong()\n"
DefPong == "@component Pong():\n  p: \"b\"\n  @Ping()\n"
DefCountdown ==
  "@component Down(n=\"1\"):\n  p: \"$n\"\n  if $n == \"1\":\n    @Down(n=\"0\")\n"
UseSelf == "@A()\n"
UsePing == "@Ping()\n"
UseCountdown == "@Down()\n"

RecursionPool == {DefSelf, DefPing, DefPong, DefCountdown, UseSelf, UsePing, UseCountdown}

InitDeep ==
  /\ pc = "tokenize"
  /\ \E src \in Documents \cup Concats(RecursionPool, MaxSnippets) : lexer = LexerInit(src)
  /\ parser = ParserInit(<<>>)
  /\ ast = <<>>
  /\ compiler = CompilerInit(<<>>)

\* _compile_component_use called once more than the interpreter allows: the
\* RecursionError leaves compile, no page is returned
EmitRecursionError ==
  /\ AtNode("ComponentUse")
  /\ DictHas(compiler.components, TopFrame.node.name)
  /\ UseDepth(compiler) >= MaxDepth
  /\ pc' = "failed"
  /\ UNCHANGED <<lexer, parser, ast, compiler>>

NextDeep == Next \/ EmitRecursionError

SpecDeep == InitDeep /\ [][NextDeep]_vars

\* ---------------------------------------------------------------------
\* The lexer alone, on sources built line by line

\* the longest source, in lines, and the deepest indentation, in spaces
MaxLines == 3
MaxIndent == 2

\* what a line holds after its indentation: nothing, an element, a comment
LexBodies == {"", "a:", "#c"}

LexLines == {Spaces(n) \o b \o "\n" : n \in 0..MaxIndent, b \in LexBodies}

\* sources with strings whose text spans indented lines
LexStrings ==
  {"a:\n  \"\"\"\n      x\n\"\"\"\nb:\n",
   "a:\n  b: \"x\n    y\"\n  c:\n",
   "a:\n \"\"\"\n\"\"\"\n  b:\n c:\n"}

\* sources that leave several levels of indentation on one line
LexDedents ==
  {"a:\n a:\n  a:\na:\n",
   "a:\n  a:\n   a:\n a:\n",
   "a:\n a:\n   a:\n  a:\n",
   "a:\n a:\n   a:\n a:\n"}

\* the sources, with and without the newline that ends the last line, those
\* with strings and those with deep indentation
LexSources ==
  LET whole == Concats(LexLines, MaxLines)
  IN  whole \cup {Slice(s, 0, Len(s) - 1) : s \in whole \ {""}}
        \cup LexStrings \cup LexDedents

InitLex ==
  /\ pc = "tokenize"
  /\ \E src \in LexSources : lexer = LexerInit(src)
  /\ parser = ParserInit(<<>>)
  /\ ast = <<>>
  /\ compiler = CompilerInit(<<>>)

NextLex == LexStep \/ LexFinish

SpecLex == InitLex /\ [][NextLex]_vars

\* ---------------------------------------------------------------------
\* The parser alone, on token lists in any order

\* the longest token list, in fragments
MaxFragments == 3

\* runs of tokens: well-formed and malformed headers, the structural tokens
\* on their own, an inline string, a use with a positional argument
TokenFragments ==
  {<<Token("ELEMENT", "a"), Token("COLON", ":")>>,
   <<Token("ELEMENT", "a"), Token("COLON", ":"), Token("STRING", "\"s\"")>>,
   <<Token("NEWLINE", "\n"), Token("INDENT", "  ")>>,
   <<Token("INDENT", "  ")>>,
   <<Token("DEDENT", "")>>,
   <<Token("COLON", ":")>>,
   <<Token("STRING", "\"s\"")>>,
   <<Token("IF_STATEMENT", "if $c"), Token("COLON", ":")>>,
   <<Token("IF_STATEMENT", "if")>>,
   <<Token("ELSE_STATEMENT", "else:")>>,
   <<Token("FOR_LOOP", "for x")>>,
   <<Token("COMPONENT_DEF", "@component B(c):")>>,
   <<Token("COMPONENT_USE", "@B(1)")>>}

\* every concatenation of at most n fragments
RECURSIVE TokenRuns(_)
TokenRuns(n) ==
  IF n = 0 THEN {<<>>}
  ELSE {<<>>} \cup {f \o r : f \in TokenFragments, r \in TokenRuns(n - 1)}

\* Parser(tokens), the tokens ending with EOF
InitParse ==
  /\ pc = "statement"
  /\ lexer = LexerInit("")
  /\ \E run \in TokenRuns(MaxFragments) :
       parser = ParserInit(Append(run, Token("EOF", "")))
  /\ ast = <<>>
  /\ compiler = CompilerInit(<<>>)

\* one iteration of the loop of Parser.parse
ParseStatementStep ==
  /\ pc = "statement"
  /\ ~IsAtEnd(parser) /\ Peek(parser).type # "EOF"
  /\ LET r == ParseStatement(parser)
     IN  /\ parser' = r.p
         /\ ast' = IF r.node = NoNode THEN ast ELSE Append(ast, r.node)
  /\ UNCHANGED <<pc, lexer, compiler>>

\* Parser.parse returns the Document
ParseReturn ==
  /\ pc = "statement"
  /\ ~(~IsAtEnd(parser) /\ Peek(parser).type # "EOF")
  /\ pc' = "parsed"
  /\ UNCHANGED <<lexer, parser, ast, compiler>>

NextParse == ParseStatementStep \/ ParseReturn

SpecParse == InitParse /\ [][NextParse]_vars

\* ---------------------------------------------------------------------
\* Properties

\* how many tokens of a type a token list holds
CountType(tokens, t) == Cardinality({i \in 1..Len(tokens) : tokens[i].type = t})

\* tokenize has returned its token list (it raised no SyntaxError)
Tokenized == pc \notin {"tokenize", "failed"}

\* C1: whenever Lexer.tokenize returns a token list, the list holds as many
\* INDENT tokens as DEDENT tokens.
IndentsMatchDedents ==
  Tokenized =>
    CountType(lexer.tokens, "INDENT") = CountType(lexer.tokens, "DEDENT")

\* C1 happens: a returned list with two INDENTs, one of them closed by a
\* DEDENT in the middle of the stream and one by a DEDENT at its end
IndentsMatchDedentsWitness ==
  /\ Tokenized
  /\ CountType(lexer.tokens, "INDENT") = 2
  /\ \E i \in 1..(Len(lexer.tokens) - 1) :
       /\ lexer.tokens[i].type = "DEDENT"
       /\ lexer.tokens[i + 1].type = "ELEMENT"
  /\ LET n == Len(lexer.tokens)
     IN  /\ lexer.tokens[n].type = "EOF"
         /\ lexer.tokens[n - 1].type = "DEDENT"
         /\ lexer.tokens[n - 2].type # "DEDENT"

\* compile has returned the page of a source text
Compiled(src) == pc = "done" /\ lexer.source = src

\* C2: compiling the three-line source "document:", "  div:", "    "Hello""
\* yields exactly six lines: the DOCTYPE, <html>, the div one level deeper with
\* the text Hello as its child a level deeper still, and </html>.
HelloPageHasSixLines ==
  Compiled(SrcHello) =>
    compiler.output_lines =
      <<"<!DOCTYPE html>", "<html>", "  <div>", "    Hello", "  </div>", "</html>">>

\* C3: after $name = "World", a later text "Hello, $name!", as a statement on
\* its own line (at top level or under an element) or as an element's inline
\* content, is emitted as Hello, World!.
GreetingIsSubstituted ==
  (\E src \in {SrcGreetingStatement, SrcGreetingInline, SrcGreetingChild} :
     Compiled(src)) =>
    \E i \in 1..Len(compiler.output_lines) :
      Contains(compiler.output_lines[i], "Hello, World!")

\* C4: with $items = ["a", "b", "c"], the loop "for x in $items:" over the
\* body "li: $x" is lexed into one FOR_LOOP token and emits exactly the three
\* lines <li>a</li>, <li>b</li>, <li>c</li>.
ItemsLoopEmitsThreeItems ==
  Compiled(SrcItemsLoop) =>
    /\ \E i \in 1..Len(lexer.tokens) :
         lexer.tokens[i] = Token("FOR_LOOP", "for x in $items")
    /\ CountType(lexer.tokens, "FOR_LOOP") = 1
    /\ compiler.output_lines = <<"<li>a</li>", "<li>b</li>", "<li>c</li>">>

\* the lines appended while the first pending frame, and the work it brings,
\* is done
Appended == SubSeq(After(compiler).output_lines,
                   Len(compiler.output_lines) + 1, Len(After(compiler).output_lines))

\* a line at the generator's current indentation
Indented(line) == Spaces(compiler.indentation) \o line

\* the conditional of the examples is about to be emitted, $flag being bound
AtFlagConditional ==
  /\ AtNode("Conditional")
  /\ TopFrame.node.condition = "$flag == \"yes\""
  /\ DictHas(compiler.variables, "$flag")

\* C5: of the conditional if $flag == "yes", exactly one branch is emitted:
\* the if-body alone when $flag is bound to yes, the else-body alone when it is
\* bound to no, and nothing when it is bound to no and there is no else branch.
OneBranchIsEmitted ==
  AtFlagConditional =>
    LET flag == DictGet(compiler.variables, "$flag")
    IN  /\ SubSeq(After(compiler).output_lines, 1, Len(compiler.output_lines))
             = compiler.output_lines
        /\ flag = "yes" => Appended = <<Indented("<p>Y</p>")>>
        /\ (flag = "no" /\ TopFrame.node.else_body # <<>>)
             => Appended = <<Indented("<p>N</p>")>>
        /\ (flag = "no" /\ TopFrame.node.else_body = <<>>) => Appended = <<>>

\* C5 happens: with $flag bound to no, the conditional with an else branch
\* has emitted its else-body alone
OneBranchIsEmittedWitness ==
  /\ Compiled(FlagNo \o IfElse)
  /\ compiler.output_lines = <<"<p>N</p>">>

\* a use of a component of the table is about to be emitted
AtKnownUse ==
  AtNode("ComponentUse") /\ DictHas(compiler.components, TopFrame.node.name)

\* what a use passes for a parameter, or the default
Supplied(use, param, default) ==
  IF DictHas(use.arguments, param) THEN DictGet(use.arguments, param) ELSE default

\* C6: when the body of a used component starts, every parameter with a
\* default is bound to the call's argument of that name, or to the default if
\* the call has none; Box (default color blue) renders the argument or blue,
\* and Card still renders its parameters at the end of its body.
ArgumentsWinOverDefaults ==
  AtKnownUse =>
    LET use       == TopFrame.node
        component == DictGet(compiler.components, use.name)
        bound     == CompileStep(compiler).variables
    IN  /\ \A i \in 1..Len(component.default_values) :
             LET param == component.default_values[i].key
             IN  /\ DictHas(bound, "$" \o param)
                 /\ DictGet(bound, "$" \o param)
                      = Supplied(use, param, component.default_values[i].value)
        /\ use.name = "Box" =>
             Appended = <<Indented("<p>" \o Supplied(use, "color", "blue") \o "</p>")>>
        /\ use.name = "Card" =>
             Appended[Len(Appended)] =
               Indented("<h1>" \o Supplied(use, "title", "T") \o " "
                          \o Supplied(use, "color", "blue") \o "</h1>")

\* C6 happens: the body of Box has rendered red, the argument, while the
\* document's own $color is green and the default is blue
ArgumentsWinOverDefaultsWitness ==
  /\ AtFrame("restore")
  /\ DictHas(TopFrame.old_vars, "$color")
  /\ DictGet(TopFrame.old_vars, "$color") = "green"
  /\ DictGet(compiler.variables, "$color") = "red"
  /\ compiler.output_lines # <<>>
  /\ compiler.output_lines[Len(compiler.output_lines)] = "  <p>red</p>"

\* C7: a use of a known component leaves the environment exactly as it found
\* it: the same names with the same values, whatever its body declared.
UseRestoresEnvironment ==
  AtKnownUse => After(compiler).variables = compiler.variables

\* C7 happens: a body is done and the environment is about to be restored, a
\* parameter shadowing a variable of the document and the body having declared
\* names directly, inside a conditional and inside a loop
UseRestoresEnvironmentWitness ==
  /\ AtFrame("restore")
  /\ DictHas(TopFrame.old_vars, "$color")
  /\ DictGet(TopFrame.old_vars, "$color") # DictGet(compiler.variables, "$color")
  /\ {"$tmp", "$inner", "$seen"} \subseteq DictKeys(compiler.variables)
  /\ {"$tmp", "$inner", "$seen"} \cap DictKeys(TopFrame.old_vars) = {}

\* C8: a use of a name the component table does not hold does nothing: no
\* line, no change of the environment or of the indentation, and the work
\* that follows is what it would be without the use.
UnknownUseDoesNothing ==
  (AtNode("ComponentUse") /\ ~DictHas(compiler.components, TopFrame.node.name)) =>
    CompileStep(compiler) = [compiler EXCEPT !.stack = Tail(@)]

\* C8 happens: the siblings before and after two uses of an unknown component
\* with the argument color = red have rendered the document's $color
UnknownUseDoesNothingWitness ==
  /\ Compiled(ColorGreen \o UseNope \o UseNope)
  /\ compiler.output_lines = <<"<p>green</p>", "<p>green</p>">>

\* the iterable of a loop is a variable bound to text of the form [...]
IsListLoop(g, loop) ==
  /\ StartsWith(loop.iterable, "$")
  /\ DictHas(g.variables, loop.iterable)
  /\ StartsWith(DictGet(g.variables, loop.iterable), "[")
  /\ EndsWith(DictGet(g.variables, loop.iterable), "]")

\* C9: a for-loop whose iterable is not a variable bound to list text (an
\* unbound variable, a bare word, a variable bound to other text) emits its
\* body zero times: no line is appended and the environment is unchanged.
OtherLoopsAreSkipped ==
  (AtNode("ForLoop") /\ ~IsListLoop(compiler, TopFrame.node)) =>
    /\ After(compiler).output_lines = compiler.output_lines
    /\ After(compiler).variables = compiler.variables

\* the names of the component definitions anywhere in a sequence of nodes
RECURSIVE DefinedNames(_)
DefinedNames(nodes) ==
  UNION {LET n == nodes[i]
         IN  IF n.kind = "ComponentDefinition" THEN {n.name} \cup DefinedNames(n.body)
             ELSE IF n.kind = "Element" THEN DefinedNames(n.children)
             ELSE IF n.kind = "ForLoop" THEN DefinedNames(n.body)
             ELSE IF n.kind = "Conditional"
             THEN DefinedNames(n.if_body) \cup DefinedNames(n.else_body)
             ELSE {} : i \in 1..Len(nodes)}

\* C10: when emission starts, the component table holds every component
\* definition of the syntax tree, wherever it stands: at top level, under an
\* element, in a loop body, in a branch of a conditional, in a component body.
AllDefinitionsAreCollected ==
  pc = "emit" => DefinedNames(ast) \subseteq DictKeys(compiler.components)

\* C11: generation terminates for every syntax tree, also when a component's
\* body uses the same component, directly or through another one: the emission
\* pass comes to the return of compile and is never cut off for want of call
\* stack (the only compilations that fail are those the lexer rejects).
GenerationTerminates == pc = "failed" => lexer.error # "none"

\* the tokens the parser was built on end with the only EOF
EndsWithEOF(tokens) ==
  /\ tokens # <<>>
  /\ \A i \in 1..Len(tokens) : tokens[i].type = "EOF" <=> i = Len(tokens)

\* C12: Parser.parse never fails on a token list that ends with EOF, whatever
\* its other tokens: the parser never moves past the EOF, a call of the
\* statement routine at any token but EOF consumes at least one token and stops
\* at the EOF at the latest, and parse returns at the EOF, mismatches having
\* only been counted.
ParseNeverFails ==
  (pc \in {"statement", "parsed"} /\ EndsWithEOF(parser.tokens)) =>
    /\ parser.position < Len(parser.tokens)
    /\ \A i \in 0..(Len(parser.tokens) - 2) :
         LET r == ParseStatement([parser EXCEPT !.position = i])
         IN  r.p.position > i /\ r.p.position < Len(parser.tokens)
    /\ pc = "parsed" => Peek(parser).type = "EOF"

\* C12 happens: parse has returned a Document with a node in it from a list
\* that starts with an unmatched DEDENT and holds a malformed header, the
\* mismatches logged
ParseNeverFailsWitness ==
  /\ pc = "parsed"
  /\ parser.tokens[1].type = "DEDENT"
  /\ \E i \in 1..Len(parser.tokens) : parser.tokens[i].value \in {"if", "for x"}
  /\ parser.errors >= 2
  /\ ast # <<>>

\* the lexer stands at the start of a line
AtLineStart ==
  /\ pc = "tokenize"
  /\ LexerRunning(lexer)
  /\ lexer.position = 0 \/ At(lexer.source, lexer.position - 1) = "\n"

\* where the text of the line at the lexer's position starts, and its width
LineText == ScanIn(lexer.source, lexer.position, IndentChars)
LineWidth == LineText - lexer.position

\* the line at the lexer's position holds no text, or a comment only
BlankOrComment ==
  \/ LineText >= Len(lexer.source)
  \/ At(lexer.source, LineText) \in {"\n", "#"}

\* a line with text, narrower than the top of the indentation stack
AtDedentingLine ==
  AtLineStart /\ ~BlankOrComment /\ LineWidth < Top(lexer.indent_stack)

\* the levels of a stack that are wider than a width, counted from the top
LevelsAbove(stack, width) ==
  Cardinality({i \in 1..Len(stack) :
                 \A j \in i..Len(stack) : stack[j] > width})

\* n DEDENT tokens
Dedents(n) == [i \in 1..n |-> Token("DEDENT", "")]

\* C13: at a line with text that is narrower than the top of the indentation
\* stack the lexer pops the levels wider than the line, one DEDENT each, down
\* to the first level that is not wider; it aborts with an indentation error
\* naming the line exactly when that level differs from the line's width, and
\* otherwise the top of the stack is the line's width.
DedentPopsToWidth ==
  [][AtDedentingLine =>
       LET n == LevelsAbove(lexer.indent_stack, LineWidth)
           kept == SubSeq(lexer.indent_stack, 1, Len(lexer.indent_stack) - n)
           failed == lexer'.error = "indentation" /\ lexer'.error_line = lexer.line
                       /\ pc' = "failed"
       IN  /\ n >= 1
           /\ lexer'.indent_stack = kept
           /\ Len(lexer'.tokens) >= Len(lexer.tokens) + n
           /\ SubSeq(lexer'.tokens, 1, Len(lexer.tokens) + n)
                = lexer.tokens \o Dedents(n)
           /\ failed <=> Top(kept) # LineWidth
           /\ ~failed =>
                /\ Top(lexer'.indent_stack) = LineWidth
                /\ lexer'.error # "indentation"
                /\ Len(lexer'.tokens) > Len(lexer.tokens) + n =>
                     lexer'.tokens[Len(lexer.tokens) + n + 1].type
                       \notin {"INDENT", "DEDENT"}]_vars

\* C13 happens: the fourth line, one space wide under levels 0, 2 and 3, has
\* popped two levels with a DEDENT each and aborted the run, 0 not being 1
DedentPopsToWidthWitness ==
  /\ pc = "failed"
  /\ lexer.error = "indentation"
  /\ lexer.error_line = 4
  /\ lexer.indent_stack = <<0>>
  /\ Len(lexer.tokens) >= 2
  /\ SubSeq(lexer.tokens, Len(lexer.tokens) - 1, Len(lexer.tokens)) = Dedents(2)

\* C14: a line that holds only whitespace, or whitespace and a comment, leaves
\* the indentation stack as it was, adds no INDENT and no DEDENT token and
\* raises no indentation error, the last line of a source that does not end
\* with a newline included.
BlankLinesKeepStack ==
  [][(AtLineStart /\ BlankOrComment) =>
       /\ lexer'.indent_stack = lexer.indent_stack
       /\ CountType(lexer'.tokens, "INDENT") = CountType(lexer.tokens, "INDENT")
       /\ CountType(lexer'.tokens, "DEDENT") = CountType(lexer.tokens, "DEDENT")
       /\ lexer'.error # "indentation"]_vars

\* the element names whose inline content, in the documents, is the reference
\* to the variable of the same name
ReferenceNames == {"color"}

\* an ELEMENT token of such a name is followed by ":" and the reference
ReferencesOnly ==
  \A i \in 1..Len(lexer.tokens) :
    (lexer.tokens[i].type = "ELEMENT" /\ lexer.tokens[i].value \in ReferenceNames) =>
      /\ i + 2 <= Len(lexer.tokens)
      /\ lexer.tokens[i + 1].type = "COLON"
      /\ lexer.tokens[i + 2] = Token("VARIABLE_REF", "$" \o lexer.tokens[i].value)

\* the generator is about to add the inline content of such an element
AtReferenceContent ==
  /\ Emitting
  /\ AtFrame("content")
  /\ TopFrame.element.name \in ReferenceNames
  /\ ReferencesOnly

\* C15: an element whose inline content is a reference $name is emitted with
\* the value bound to $name in the generator's environment at that moment (a
\* component parameter or loop iterator of that name included, a declaration in
\* a branch not taken excluded), and with the literal $name if it is unbound.
ReferenceReadsEnvironment ==
  [][AtReferenceContent =>
       LET name == TopFrame.element.name
           var == "$" \o name
           value == IF DictHas(compiler.variables, var)
                    THEN DictGet(compiler.variables, var) ELSE var
       IN  compiler'.output_lines[Len(compiler'.output_lines)]
             = Spaces(compiler.indentation) \o "<" \o name \o ">" \o value
                 \o "</" \o name \o ">"]_vars

\* the nodes a node holds, in source order
Nested(node) ==
  CASE node.kind = "Element" -> node.children
    [] node.kind \in {"ForLoop", "ComponentDefinition"} -> node.body
    [] node.kind = "Conditional" -> node.if_body \o node.else_body
    [] OTHER -> <<>>

\* the Element nodes of a list of nodes, in source order
RECURSIVE ElementsIn(_)
ElementsIn(nodes) ==
  IF nodes = <<>> THEN <<>>
  ELSE (IF Head(nodes).kind = "Element" THEN <<Head(nodes)>> ELSE <<>>)
         \o ElementsIn(Nested(Head(nodes))) \o ElementsIn(Tail(nodes))

\* the positions of the ELEMENT tokens, in token order
ElementTokens ==
  SelectSeq([i \in 1..Len(lexer.tokens) |-> i],
            LAMBDA i : lexer.tokens[i].type = "ELEMENT")

\* the positions before i of the declarations of $color
ColorDeclsBefore(i) ==
  {j \in 1..(i - 1) :
     /\ lexer.tokens[j].type = "VARIABLE_DECL"
     /\ Len(lexer.tokens[j].value) > 10
     /\ Slice(lexer.tokens[j].value, 0, 10) = "$color = \""}

\* what class="$color" is to become at token i: the text between the quotes
\* of the last declaration of $color before it, or the reference itself
ColorAt(i) ==
  IF ColorDeclsBefore(i) = {} THEN "$color"
  ELSE LET j == CHOOSE j \in ColorDeclsBefore(i) : \A k \in ColorDeclsBefore(i) : k <= j
           v == lexer.tokens[j].value
       IN  Slice(v, 10, Len(v) - 1)

\* the document holds a reference to $color in an attribute value
HasColorAttribute ==
  \E i \in 1..Len(lexer.tokens) : lexer.tokens[i] = Token("ATTRIBUTE", "class=\"$color\"")

\* C16: a reference $name in an attribute value is replaced by the value of
\* the last declaration of $name that comes before it in token order; with no
\* declaration before it (one that comes later, a component parameter or a
\* loop iterator of that name) it stays the literal $name, in the tree and in
\* the emitted tag whatever the environment binds when the tag is emitted.
AttributeUsesEarlierDeclaration ==
  /\ [](pc \in {"compile", "emit", "done"} /\ HasColorAttribute =>
         LET elements == ElementsIn(ast)
         IN  /\ Len(elements) = Len(ElementTokens)
             /\ \A k \in 1..Len(elements) :
                  lexer.tokens[ElementTokens[k] + 1].type = "ATTRIBUTE" =>
                    elements[k].attributes
                      = <<[key |-> "class", value |-> ColorAt(ElementTokens[k]),
                           bare |-> FALSE]>>)
  /\ [][(AtNode("Element") /\ HasColorAttribute /\ TopFrame.node.attributes # <<>>) =>
          compiler'.output_lines
            = compiler.output_lines
                \o <<Indented("<" \o TopFrame.node.name \o " class=\""
                                \o TopFrame.node.attributes[1].value \o "\">"),
                     Indented("</" \o TopFrame.node.name \o ">")>>]_vars

\* C16 happens: the same element before and after the declaration, and in a
\* loop whose iterator has the name, the declaration coming first
AttributeUsesEarlierDeclarationWitness ==
  \/ /\ Compiled(DivColor \o ColorGreen \o DivColor)
     /\ compiler.output_lines
          = <<"<div class=\"$color\">", "</div>", "<div class=\"green\">", "</div>">>
  \/ /\ Compiled(LoopWithAttribute \o ColorRed \o DivColor)
     /\ compiler.output_lines
          = <<"<div class=\"$color\">", "</div>", "<div class=\"$color\">", "</div>",
              "<div class=\"red\">", "</div>">>

\* the list texts of the documents and the items each stands for
ListTexts == {"[\"a\", \"b\"]", "[ a,b , c]", "[\"a\", b]"}
ItemsOf(text) ==
  CASE text = "[\"a\", \"b\"]" -> <<"a", "b">>
    [] text = "[ a,b , c]" -> <<"a", "b", "c">>
    [] text = "[\"a\", b]" -> <<"\"a\"", "b">>

\* the loop over $items with the body of two nodes is about to be emitted,
\* $items being bound to a list text
AtListLoop ==
  /\ AtNode("ForLoop")
  /\ TopFrame.node.iterator = "x"
  /\ TopFrame.node.iterable = "$items"
  /\ Len(TopFrame.node.body) = 2
  /\ DictHas(compiler.variables, "$items")
  /\ DictGet(compiler.variables, "$items") \in ListTexts

\* what the body "li: "$x"", "hr:" emits for each item in turn
RECURSIVE BodyLines(_)
BodyLines(items) ==
  IF items = <<>> THEN <<>>
  ELSE <<Indented("<li>" \o Head(items) \o "</li>"), Indented("<hr>"), Indented("</hr>")>>
         \o BodyLines(Tail(items))

\* C17: a for-loop whose iterable is bound to [i1, ..., in] emits its body
\* exactly n times, in list order, the k-th time with the iterator bound to the
\* k-th item, trimmed, and without its double quotes only when every item has
\* them.
LoopEmitsBodyPerItem ==
  AtListLoop =>
    /\ SubSeq(After(compiler).output_lines, 1, Len(compiler.output_lines))
         = compiler.output_lines
    /\ Appended = BodyLines(ItemsOf(DictGet(compiler.variables, "$items")))

\* C17 happens: the loop over ["a", b] has emitted its body twice, the first
\* item with its quotes
LoopEmitsBodyPerItemWitness ==
  /\ Compiled(ItemsMixed \o LoopTwoNodes)
  /\ compiler.output_lines
       = <<"<li>\"a\"</li>", "<hr>", "</hr>", "<li>b</li>", "<hr>", "</hr>">>

\* a for-loop that runs at least one iteration is about to be emitted
AtRunningLoop ==
  /\ AtNode("ForLoop")
  /\ StartsWith(TopFrame.node.iterable, "$")
  /\ DictHas(compiler.variables, TopFrame.node.iterable)

\* the body of the last iteration of a loop has just been emitted
AtLastCleanup ==
  /\ Emitting
  /\ AtFrame("cleanup")
  /\ compiler.stack[2].f = "iterate"
  /\ compiler.stack[2].items = <<>>

\* the entries of a dictionary but the one of a key, in order
Without(d, k) == SelectSeq(d, LAMBDA e : e.key # k)

\* C18: when a for-loop that ran at least one iteration has finished, the
\* iterator's name is unbound, a binding of that name from before the loop
\* being lost, and every other binding is the one the last emission of the
\* body left.
IteratorIsUnboundAfterLoop ==
  /\ [](AtRunningLoop =>
          ~DictHas(After(compiler).variables, "$" \o TopFrame.node.iterator))
  /\ [][AtLastCleanup =>
          /\ compiler'.variables = Without(compiler.variables, TopFrame.temp_var)
          /\ After(compiler').variables = compiler'.variables]_vars

\* C18 happens: $x, declared before the loop over x, is unbound after it and
\* read as the literal; the body's own declaration is still bound
IteratorIsUnboundAfterLoopWitness ==
  /\ Compiled(DeclX \o LoopOverX \o ShowX)
  /\ compiler.variables = <<[key |-> "$items", value |-> "[a, b]"],
                            [key |-> "$last", value |-> "l"]>>
  /\ compiler.output_lines = <<"<p>a</p>", "<p>b</p>", "<p>$x</p>">>

\* one list of lines starts with another
StartsWithLines(new, old) ==
  Len(new) >= Len(old) /\ SubSeq(new, 1, Len(old)) = old

\* C19 as stated: at every step the output lines only grow, no step removing
\* or rewriting a line already appended.
OutputIsAppendOnly ==
  [][StartsWithLines(compiler'.output_lines, compiler.output_lines)]_vars

\* C19: at every step the output lines only grow in number and every line but
\* the last stays as it is; the last line is rewritten by one step only, the
\* one that adds an element's inline content and closing tag to the opening tag
\* the element has just appended, and that step extends the line.
OutputGrowsLastLineExtended ==
  [][LET old == compiler.output_lines
         new == compiler'.output_lines
         n == Len(old)
     IN  /\ Len(new) >= n
         /\ \A i \in 1..(n - 1) : new[i] = old[i]
         /\ (n > 0 /\ new[n] # old[n]) =>
              /\ AtFrame("content")
              /\ Len(new) = n
              /\ old[n] = OpeningTag(compiler, TopFrame.element)
              /\ StartsWith(new[n], old[n])
              /\ EndsWith(new[n], "</" \o TopFrame.element.name \o ">")]_vars

\* C19 happens: inside the list element the opening tag of the component's
\* paragraph has been rewritten to hold its content, the lines before it as
\* they were
OutputGrowsLastLineExtendedWitness ==
  /\ pc = "emit"
  /\ lexer.source = DefBox \o UseBoxes
  /\ compiler.output_lines = <<"<p>blue</p>", "<ul>", "  <p>red</p>">>

\* the generator is about to add the text $ab to its element, $ab being bound
AtReferenceToAB ==
  /\ Emitting
  /\ AtFrame("content")
  /\ TopFrame.element.content = "$ab"
  /\ DictHas(compiler.variables, "$ab")

\* C20: a reference $ab in a text is rendered as the value bound to $ab, also
\* when $a is bound, whichever of the two was declared first.
ReferenceIsReplacedByItsOwnValue ==
  [][AtReferenceToAB =>
       compiler'.output_lines[Len(compiler'.output_lines)]
         = Indented("<p>" \o DictGet(compiler.variables, "$ab") \o "</p>")]_vars

\* an Element has inline content or children, not both
ContentOrChildren(element) == element.content # "" => element.children = <<>>

\* C21: every Element the parser builds has inline content or child nodes,
\* never both: the Elements of the Document so far, at any depth, and the
\* Elements the statement routine builds when it starts at any token.
ElementHasContentOrChildren ==
  pc \in {"statement", "parsed"} =>
    /\ \A k \in 1..Len(ElementsIn(ast)) : ContentOrChildren(ElementsIn(ast)[k])
    /\ \A i \in 0..(Len(parser.tokens) - 2) :
         LET node == ParseStatement([parser EXCEPT !.position = i]).node
             elements == IF node = NoNode THEN <<>> ELSE ElementsIn(<<node>>)
         IN  \A k \in 1..Len(elements) : ContentOrChildren(elements[k])

\* C21 happens: parse has returned an Element with the content s and no child,
\* the element of the indented block that follows its content in the token
\* list standing next to it in the Document
ElementHasContentOrChildrenWitness ==
  /\ pc = "parsed"
  /\ parser.tokens
       = <<Token("ELEMENT", "a"), Token("COLON", ":"), Token("STRING", "\"s\""),
           Token("NEWLINE", "\n"), Token("INDENT", "  "),
           Token("ELEMENT", "a"), Token("COLON", ":"), Token("EOF", "")>>
  /\ ast = <<Element("a", <<>>, <<>>, "s"), Element("a", <<>>, <<>>, "")>>

\* C22: the generator's indentation counter is a non-negative multiple of 2 at
\* every point, the emission of a node of any kind leaves it at the value it
\* had before the node, and it is 0 when compile returns.
IndentationIsBalanced ==
  /\ compiler.indentation >= 0
  /\ compiler.indentation % 2 = 0
  /\ (Emitting /\ AtFrame("node")) =>
       After(compiler).indentation = compiler.indentation
  /\ pc = "done" => compiler.indentation = 0

\* C22 happens: compile has returned with the counter at 0 after an element
\* whose children, a component use among them, were emitted two spaces deeper
IndentationIsBalancedWitness ==
  /\ Compiled(DefBox \o UseBoxes)
  /\ compiler.output_lines = <<"<p>blue</p>", "<ul>", "  <p>red</p>", "</ul>">>
  /\ compiler.indentation = 0

\* C23: at every point of tokenization the indentation stack is non-empty,
\* its bottom entry is 0, its entries increase strictly from bottom to top, and
\* it holds as many entries above the bottom as INDENT tokens have been
\* emitted so far, less the DEDENT tokens emitted so far.
IndentStackIsWellFormed ==
  LET stack == lexer.indent_stack
  IN  /\ stack # <<>>
      /\ stack[1] = 0
      /\ \A i \in 1..(Len(stack) - 1) : stack[i] < stack[i + 1]
      /\ Len(stack) - 1
           = CountType(lexer.tokens, "INDENT") - CountType(lexer.tokens, "DEDENT")

\* C23 happens: in the middle of tokenization, after two levels were pushed
\* and one popped, the stack holds one level above the bottom
IndentStackIsWellFormedWitness ==
  /\ pc = "tokenize"
  /\ LexerRunning(lexer)
  /\ lexer.indent_stack = <<0, 1>>
  /\ CountType(lexer.tokens, "INDENT") = 2
  /\ CountType(lexer.tokens, "DEDENT") = 1

====
